---- MODULE Spec2Model ----
(***************************************************************************)
(* The eggs-next-setup schematic (src/src/eggs-next-setup/index.ts): the   *)
(* orchestration rule eggsNextSetup, the dependency resolver               *)
(* resolveDependencies with its two registry queries, the install rule and *)
(* the Git setup.  Strings are TLA+ strings; the order of version strings  *)
(* is the order of their UTF-16 code units, as Array.prototype.sort uses.  *)
(***************************************************************************)
EXTENDS Naturals, Sequences, FiniteSets, TLC

VARIABLES
    pc,               \* position of the run
    options,          \* the options object passed to the schematic
    angularVersion,   \* const angularVersion (index.ts:203)
    createRepo,       \* gitResponse.createRepo (index.ts:225-230)
    repoUrl,          \* let repoUrl (index.ts:232)
    token,            \* let token of the outer scope (index.ts:233)
    repoToken,        \* const token of the inner block (index.ts:235)
    registry,         \* the answers the npm registry may give, per package
    i,                \* index of the package the loop of resolveDependencies is at
    version,          \* const version of the current iteration (index.ts:110)
    resolvedPackages, \* resolvedPackages (index.ts:106)
    compatibilityMap, \* compatibilityMap (index.ts:107)
    result,           \* results returned by resolveDependencies, one per call
    inflight,         \* registry queries issued and not yet answered
    queries,          \* every registry query issued, in order
    declared,         \* <<name, spec>> string entries of the peer dependencies fetched in this call
    executed,         \* external commands run, in order, with their exit
    logged,           \* kinds of message written to the console
    git,              \* number of Git commands of setupGitRepository run so far
    tree              \* files of the schematic Tree

vars == << pc, options, angularVersion, createRepo, repoUrl, token, repoToken,
           registry, i, version, resolvedPackages, compatibilityMap, result,
           inflight, queries, declared, executed, logged, git, tree >>

---------------------------------------------------------------------------
(* Bounds *)

\* number of distinct version strings a registry listing publishes
MaxVersions == 2
\* number of calls of resolveDependencies a test of the resolver makes
MaxCalls == 2

---------------------------------------------------------------------------
(* Strings and JavaScript values *)

\* JavaScript's undefined
Undefined == "<undefined>"

\* x || y for string-or-undefined x: undefined and "" are falsy
OrElse(x, y) == IF x = Undefined \/ x = "" THEN y ELSE x

\* obj[key]: the value, or undefined for a missing key
Get(obj, key) == IF key \in DOMAIN obj THEN obj[key] ELSE Undefined

\* the empty object {}
EmptyObject == [k \in {} |-> Undefined]

\* version strings a listing may publish, with their UTF-16 code units
VersionTable ==
    << [str |-> "10.0.0",   units |-> <<49, 48, 46, 48, 46, 48>>],
       [str |-> "2.0.0",    units |-> <<50, 46, 48, 46, 48>>],
       [str |-> "2.0.0-rc", units |-> <<50, 46, 48, 46, 48, 45, 114, 99>>],
       [str |-> "9.1.0",    units |-> <<57, 46, 49, 46, 48>>] >>

VersionStrings ==
    {VersionTable[k].str : k \in 1..(IF MaxVersions < Len(VersionTable) THEN MaxVersions ELSE Len(VersionTable))}

\* the UTF-16 code units of a version string
CodeUnits(s) == VersionTable[CHOOSE k \in 1..Len(VersionTable) : VersionTable[k].str = s].units

\* a shorter version string first, then by code units
StringLessBySemver(a, b) ==
    LET ua == CodeUnits(a)
        ub == CodeUnits(b)
    IN  \/ Len(ua) < Len(ub)
        \/ /\ Len(ua) = Len(ub)
           /\ \E k \in 1..Len(ua) :
                 /\ \A j \in 1..(k - 1) : ua[j] = ub[j]
                 /\ ua[k] < ub[k]

\* a < b as JavaScript compares strings: by code units, a proper prefix first
StringLess(a, b) ==
    LET ua == CodeUnits(a)
        ub == CodeUnits(b)
    IN  \E k \in 1..(Len(ua) + 1) :
          /\ k - 1 <= Len(ub)
          /\ \A j \in 1..(k - 1) : ua[j] = ub[j]
          /\ \/ k = Len(ua) + 1 /\ k <= Len(ub)
             \/ k <= Len(ua) /\ k <= Len(ub) /\ ua[k] < ub[k]

\* Array.prototype.sort() without a comparator, on an array of distinct strings
RECURSIVE sort(_)
sort(S) ==
    IF S = {} THEN << >>
    ELSE LET least == CHOOSE a \in S : \A b \in S \ {a} : StringLess(a, b)
         IN  << least >> \o sort(S \ {least})

\* array[0]: the first element, or undefined for the empty array
First(array) == IF Len(array) = 0 THEN Undefined ELSE array[1]

\* array.join(sep)
RECURSIVE join(_, _)
join(array, sep) ==
    IF Len(array) = 0 THEN ""
    ELSE IF Len(array) = 1 THEN array[1]
    ELSE array[1] \o sep \o join(Tail(array), sep)

\* the completion of a call: a returned value or a thrown error
Return(v) == [threw |-> FALSE, value |-> v]
Throw == [threw |-> TRUE]

---------------------------------------------------------------------------
(* The registry and its documents *)

dependenciesToCheck ==
    << [name |-> "rxjs", version |-> "latest"],
       [name |-> "primeng", version |-> "latest"],
       [name |-> "primeflex", version |-> "latest"],
       [name |-> "keycloak-js", version |-> "latest"],
       [name |-> "keycloak-angular", version |-> "latest"] >>

Packages == 1..Len(dependenciesToCheck)

\* values of the angular-version option: unset, or a version
AngularVersionOptions == {Undefined, "17.0.0"}

\* peer-dependency specs a listing entry may declare for '@angular/core'
CoreSpecs == {"17.0.0", "^17.0.0", "latest"}

\* an entry of the versions object of GET /<package>: without peerDependencies,
\* with an empty peerDependencies, or declaring '@angular/core'
VersionEntries ==
    {[dist |-> "tarball"], [dist |-> "tarball", peerDependencies |-> EmptyObject]}
    \cup {[dist |-> "tarball", peerDependencies |-> [n \in {"@angular/core"} |-> s]] : s \in CoreSpecs}

\* the versions objects: version string -> entry
VersionsObjects ==
    UNION {[keys -> VersionEntries] : keys \in SUBSET VersionStrings}

\* the outcomes of axios.get on GET /<package>: the request fails, the body is
\* no object (or null), an object without versions, an object with versions
ListingResponses ==
    {[kind |-> "error"], [kind |-> "notObject"], [kind |-> "noVersions"]}
    \cup {[kind |-> "ok", versions |-> vs] : vs \in VersionsObjects}

DepNames == {"zone.js", "@angular/core"}
DepSpecs == {"~0.11.0", "~0.14.0"}

\* a value of a peerDependencies object of GET /<package>/<version>
DepValues == {[type |-> "string", value |-> s] : s \in DepSpecs} \cup {[type |-> "number"]}

PeerDependenciesObjects ==
    UNION {[names -> DepValues] : names \in SUBSET DepNames}

\* the outcomes of axios.get on GET /<package>/<version>
ManifestResponses ==
    {[kind |-> "error"], [kind |-> "notObject"], [kind |-> "noPeerDependencies"]}
    \cup {[kind |-> "ok", peerDependencies |-> pd] : pd \in PeerDependenciesObjects}

\* the versions getCompatibleVersion may resolve to
ResolvableVersions == VersionStrings \cup {"latest"}

\* a registry whose answers for a package are fixed: one listing, and one
\* manifest response per version
Pinned(listing, manifest) == [pinned |-> TRUE, listing |-> listing, manifest |-> manifest]

\* a registry that may answer every query for a package with any response
Unpinned ==
    [pinned |-> FALSE, listing |-> [kind |-> "error"],
     manifest |-> [v \in ResolvableVersions |-> [kind |-> "error"]]]

LiveRegistry == [p \in Packages |-> Unpinned]

---------------------------------------------------------------------------
(* getCompatibleVersion and getPeerDependencies *)

\* the filter of index.ts:94
Compatible(versions, v, angular) ==
    LET peer == IF "peerDependencies" \in DOMAIN versions[v]
                THEN versions[v].peerDependencies ELSE EmptyObject
    IN  Get(peer, "@angular/core") = angular

\* the body of the try block of getCompatibleVersion
tryCompatibleVersion(response, angular) ==
    CASE response.kind = "error" -> Throw
      [] response.kind = "notObject" -> Return("latest")
      [] response.kind = "noVersions" -> Throw
      [] response.kind = "ok" ->
           LET versions == response.versions
               compatibleVersion ==
                   First(sort({v \in DOMAIN versions : Compatible(versions, v, angular)}))
           IN  Return(OrElse(compatibleVersion, "latest"))

getCompatibleVersionNoCatch(response, angular) == tryCompatibleVersion(response, angular)

getCompatibleVersionNoFallback(response, angular) ==
    LET r == tryCompatibleVersion(response, angular)
    IN  IF r.threw THEN Return("latest")
        ELSE IF response.kind = "ok"
             THEN Return(First(sort({v \in DOMAIN response.versions :
                                     Compatible(response.versions, v, angular)})))
             ELSE r

getCompatibleVersion(response, angular) ==
    LET r == tryCompatibleVersion(response, angular)
    IN  IF r.threw THEN Return("latest") ELSE r

\* the body of the try block of getPeerDependencies
tryPeerDependencies(response) ==
    CASE response.kind = "error" -> Throw
      [] response.kind = "notObject" -> Return(EmptyObject)
      [] response.kind = "noPeerDependencies" -> Return(EmptyObject)
      [] response.kind = "ok" -> Return(response.peerDependencies)

getPeerDependencies(response) ==
    LET r == tryPeerDependencies(response)
    IN  IF r.threw THEN Return(EmptyObject) ELSE r

---------------------------------------------------------------------------
(* resolveDependencies *)

VersionsQuery(p) == [endpoint |-> "versions", package |-> dependenciesToCheck[p].name]

\* the query with the version of the request list instead of the resolved one
ManifestQueryRequested(p, v) ==
    [endpoint |-> "manifest", package |-> dependenciesToCheck[p].name,
     version |-> dependenciesToCheck[p].version]

ManifestQuery(p, v) ==
    [endpoint |-> "manifest", package |-> dependenciesToCheck[p].name, version |-> v]

\* the answers of the registry to GET /<package>
ListingAnswers(p) ==
    IF registry[p].pinned THEN {registry[p].listing} ELSE ListingResponses

\* the answers of the registry to GET /<package>/<version>; a version the
\* registry does not know is a 404, which axios throws
ManifestAnswers(p, v) ==
    IF ~registry[p].pinned THEN ManifestResponses
    ELSE IF v \in DOMAIN registry[p].manifest THEN {registry[p].manifest[v]}
    ELSE {[kind |-> "error"]}

\* const resolvedPackages = [`@schematics/angular@${angularVersion}`]
InitialPackagesEmpty(angular) == << >>

InitialPackagesHoisted(angular) ==
    IF Len(result) = 0 THEN << "@schematics/angular@" \o angular >>
    ELSE result[Len(result)].packages

InitialPackages(angular) == << "@schematics/angular@" \o angular >>

\* the forEach over Object.entries(peerDeps), index.ts:115-122
RecordPeerDeps(map, peerDeps) ==
    [n \in DOMAIN map \cup DOMAIN peerDeps |->
        (IF n \in DOMAIN map THEN map[n] ELSE {})
        \cup (IF n \in DOMAIN peerDeps /\ peerDeps[n].type = "string"
              THEN {peerDeps[n].value} ELSE {})]

\* the forEach over compatibilityMap, index.ts:125-131
HasConflictAnyEntry(map) == \E n \in DOMAIN map : Cardinality(map[n]) >= 1

HasConflict(map) == \E n \in DOMAIN map : Cardinality(map[n]) > 1

\* resolveDependencies up to its first await: the locals, and the first query
ResolveBegin ==
    /\ resolvedPackages' = InitialPackages(angularVersion)
    /\ compatibilityMap' = EmptyObject
    /\ i' = 1
    /\ version' = Undefined
    /\ declared' = {}
    /\ inflight' = inflight \cup {VersionsQuery(1)}
    /\ queries' = Append(queries, VersionsQuery(1))
    /\ pc' = "awaitVersions"

\* an error thrown out of resolveDependencies rejects its promise
Reject ==
    /\ pc' = "rejected"
    /\ UNCHANGED << i, version, resolvedPackages, compatibilityMap, result, queries, declared >>

\* getCompatibleVersion completes and getPeerDependencies issues its query
VersionsReturn ==
    /\ pc = "awaitVersions"
    /\ VersionsQuery(i) \in inflight
    /\ \E r \in {getCompatibleVersion(response, angularVersion) :
                    response \in ListingAnswers(i)} :
             IF r.threw
                THEN /\ inflight' = inflight \ {VersionsQuery(i)}
                     /\ Reject
                ELSE /\ version' = r.value
                     /\ inflight' = (inflight \ {VersionsQuery(i)}) \cup {ManifestQuery(i, r.value)}
                     /\ queries' = Append(queries, ManifestQuery(i, r.value))
                     /\ pc' = "awaitManifest"
                     /\ UNCHANGED << i, resolvedPackages, compatibilityMap, result, declared >>
    /\ UNCHANGED << options, angularVersion, createRepo, repoUrl, token, repoToken,
                    registry, executed, logged, git, tree >>

\* getPeerDependencies completes: the rest of the loop body, then the next
\* iteration up to its await, or the end of resolveDependencies
ManifestReturn ==
    /\ pc = "awaitManifest"
    /\ ManifestQuery(i, version) \in inflight
    /\ \E r \in {getPeerDependencies(response) :
                    response \in ManifestAnswers(i, version)} :
             IF r.threw
                THEN /\ inflight' = inflight \ {ManifestQuery(i, version)}
                     /\ Reject
                ELSE LET peerDeps == r.value
                         packages == Append(resolvedPackages,
                                            dependenciesToCheck[i].name \o "@" \o version)
                         map == RecordPeerDeps(compatibilityMap, peerDeps)
                     IN  /\ declared' = declared \cup
                               {<< n, peerDeps[n].value >> :
                                   n \in {m \in DOMAIN peerDeps : peerDeps[m].type = "string"}}
                         /\ IF i < Len(dependenciesToCheck)
                            THEN /\ i' = i + 1
                                 /\ version' = Undefined
                                 /\ resolvedPackages' = packages
                                 /\ compatibilityMap' = map
                                 /\ inflight' = (inflight \ {ManifestQuery(i, version)})
                                                    \cup {VersionsQuery(i + 1)}
                                 /\ queries' = Append(queries, VersionsQuery(i + 1))
                                 /\ pc' = "awaitVersions"
                                 /\ UNCHANGED result
                            ELSE /\ result' = Append(result,
                                        [packages |-> packages, forceInstall |-> HasConflict(map)])
                                 /\ i' = 0
                                 /\ version' = Undefined
                                 /\ resolvedPackages' = << >>
                                 /\ compatibilityMap' = EmptyObject
                                 /\ inflight' = inflight \ {ManifestQuery(i, version)}
                                 /\ pc' = "resolved"
                                 /\ UNCHANGED queries
    /\ UNCHANGED << options, angularVersion, createRepo, repoUrl, token, repoToken,
                    registry, executed, logged, git, tree >>

---------------------------------------------------------------------------
(* External commands *)

\* runCommand(command, args, cwd) when execSync ends with the given exit status:
\* a nonzero exit is logged and thrown again
runCommandSwallow(command, args, exit) ==
    [line |-> command \o " " \o join(args, " "), exit |-> exit,
     logged |-> exit # 0, threw |-> FALSE]

runCommand(command, args, exit) ==
    [line |-> command \o " " \o join(args, " "), exit |-> exit,
     logged |-> exit # 0, threw |-> exit # 0]

ExitStatus == {0, 1}

\* path.basename(fullPath) for the default name and target directory
projectDirName == "my-angular-app"

\* the token of process.env.GITHUB_TOKEN, when set
EnvTokens == {Undefined, "ghp_token"}

\* response.data.clone_url of the repository created
CloneUrlRest == "github.com/eggs/" \o projectDirName \o ".git"
CloneUrl == "https://" \o CloneUrlRest

\* repoUrl.replace('https://', `https://${token}@`)
authRepoUrl(url, tok) ==
    IF url = CloneUrl THEN "https://" \o tok \o "@" \o CloneUrlRest ELSE url

\* the arguments of 'ng new', index.ts:246
ngNewArgs(angular) ==
    << "ng", "new", projectDirName, "--version", angular, "--routing", "--style", "scss" >>

\* installArgs of installDependenciesRule, index.ts:192-194
installArgsAlwaysForce(packages, forceInstall) ==
    << "install" >> \o packages \o << "--legacy-peer-deps" >>

installArgs(packages, forceInstall) ==
    << "install" >> \o packages
        \o (IF forceInstall THEN << "--legacy-peer-deps" >> ELSE << >>)

\* the execSync calls of setupGitRepository, in order
gitCommands(url, tok) ==
    << "git init",
       "git config user.name \"Your Name\"",
       "git config user.email \"your-email@example.com\"",
       "git remote add origin " \o authRepoUrl(url, tok),
       "git add .",
       "git commit -m \"Initial commit\"",
       "git push -u origin master" >>

\* the command whose failure the inner try of setupGitRepository catches
CommitCommand == "git commit -m \"Initial commit\""

\* the Tree a rule of the chain hands on: the rules return nothing
RuleTreeWithProject(t) == t \cup {"/" \o projectDirName \o "/package.json"}

RuleTree(t) == t

---------------------------------------------------------------------------
(* eggsNextSetup *)

\* the rule up to the prompt for the repository
Start ==
    /\ pc = "start"
    /\ angularVersion' = OrElse(options.angularVersion, "latest")
    /\ \E answer \in BOOLEAN :
         /\ createRepo' = answer
         /\ pc' = IF answer THEN "getToken" ELSE "chain"
    /\ UNCHANGED << options, repoUrl, token, repoToken, registry, i, version,
                    resolvedPackages, compatibilityMap, result, inflight, queries,
                    declared, executed, logged, git, tree >>

\* getGitHubToken: without the environment variable the process exits
GetGitHubToken ==
    /\ pc = "getToken"
    /\ \E env \in EnvTokens :
         IF env = Undefined \/ env = ""
         THEN /\ logged' = logged \cup {"tokenError"}
              /\ pc' = "exited"
              /\ UNCHANGED repoToken
         ELSE /\ repoToken' = env
              /\ pc' = "createRepo"
              /\ UNCHANGED logged
    /\ UNCHANGED << options, angularVersion, createRepo, repoUrl, token, registry, i,
                    version, resolvedPackages, compatibilityMap, result, inflight,
                    queries, declared, executed, git, tree >>

\* createGitRepo without the try/catch around it: its error ends the run
CreateGitRepoUncaught ==
    /\ pc = "createRepo"
    /\ \E outcome \in {"exists", "requestFailed", "noCloneUrl", "created"} :
         IF outcome = "created"
         THEN /\ repoUrl' = CloneUrl
              /\ pc' = "chain"
              /\ UNCHANGED logged
         ELSE /\ logged' = logged \cup {"repoError"}
              /\ pc' = "aborted"
              /\ UNCHANGED repoUrl
    /\ UNCHANGED << options, angularVersion, createRepo, token, repoToken, registry, i,
                    version, resolvedPackages, compatibilityMap, result, inflight,
                    queries, declared, executed, git, tree >>

\* createGitRepo and the try/catch around it (index.ts:236-241): an existing
\* repository, a failed request or a response without clone_url is logged and the
\* run goes on without a repository URL
CreateGitRepo ==
    /\ pc = "createRepo"
    /\ \E outcome \in {"exists", "requestFailed", "noCloneUrl", "created"} :
         IF outcome = "created"
         THEN /\ repoUrl' = CloneUrl
              /\ UNCHANGED logged
         ELSE /\ logged' = logged \cup {"repoError"}
              /\ UNCHANGED repoUrl
    /\ pc' = "chain"
    /\ UNCHANGED << options, angularVersion, createRepo, token, repoToken, registry, i,
                    version, resolvedPackages, compatibilityMap, result, inflight,
                    queries, declared, executed, git, tree >>

\* a command run by runCommand: recorded, logged when it fails
Run(c) ==
    /\ executed' = Append(executed, [line |-> c.line, exit |-> c.exit])
    /\ logged' = IF c.logged THEN logged \cup {"commandError"} ELSE logged

\* the first rule of the chain: 'npx ng new'
NgNew ==
    /\ pc = "chain"
    /\ \E exit \in ExitStatus :
         LET c == runCommand("npx", ngNewArgs(angularVersion), exit)
         IN  /\ Run(c)
             /\ pc' = IF c.threw THEN "aborted" ELSE "installRule"
    /\ tree' = RuleTree(tree)
    /\ UNCHANGED << options, angularVersion, createRepo, repoUrl, token, repoToken,
                    registry, i, version, resolvedPackages, compatibilityMap, result,
                    inflight, queries, declared, git >>

\* the second rule: installDependenciesRule up to its await of resolveDependencies
InstallDependenciesRule ==
    /\ pc = "installRule"
    /\ ResolveBegin
    /\ UNCHANGED << options, angularVersion, createRepo, repoUrl, token, repoToken,
                    registry, result, executed, logged, git, tree >>

\* installDependenciesRule after the await: 'npm install'
Install ==
    /\ pc = "resolved"
    /\ \E exit \in ExitStatus :
         LET r == result[Len(result)]
             c == runCommand("npm", installArgs(r.packages, r.forceInstall), exit)
         IN  /\ Run(c)
             /\ pc' = IF c.threw THEN "aborted" ELSE "gitRule"
    /\ tree' = RuleTree(tree)
    /\ declared' = {}
    /\ UNCHANGED << options, angularVersion, createRepo, repoUrl, token, repoToken,
                    registry, i, version, resolvedPackages, compatibilityMap, result,
                    inflight, queries, git >>

\* the third rule: setupGitRepository when a repository was created
GitRule ==
    /\ pc = "gitRule"
    /\ pc' = IF repoUrl # "" THEN "git" ELSE "done"
    /\ tree' = RuleTree(tree)
    /\ UNCHANGED << options, angularVersion, createRepo, repoUrl, token, repoToken,
                    registry, i, version, resolvedPackages, compatibilityMap, result,
                    inflight, queries, declared, executed, logged, git >>

\* one execSync of setupGitRepository: a failed commit is a warning, any other
\* failure is logged by the outer catch and ends the function
GitCommand ==
    /\ pc = "git"
    /\ git < Len(gitCommands(repoUrl, token))
    /\ \E exit \in ExitStatus :
         LET line == gitCommands(repoUrl, token)[git + 1]
         IN  /\ executed' = Append(executed, [line |-> line, exit |-> exit])
             /\ git' = git + 1
             /\ IF exit = 0
                THEN /\ pc' = IF git + 1 = Len(gitCommands(repoUrl, token)) THEN "done" ELSE "git"
                     /\ UNCHANGED logged
                ELSE IF line = CommitCommand
                THEN /\ pc' = "git"
                     /\ logged' = logged \cup {"commitWarning"}
                ELSE /\ pc' = "done"
                     /\ logged' = logged \cup {"gitError"}
    /\ UNCHANGED << options, angularVersion, createRepo, repoUrl, token, repoToken,
                    registry, i, version, resolvedPackages, compatibilityMap, result,
                    inflight, queries, declared, tree >>

---------------------------------------------------------------------------
(* The run of the schematic *)

Init ==
    /\ pc = "start"
    /\ options \in [angularVersion : AngularVersionOptions]
    /\ angularVersion = Undefined
    /\ createRepo = FALSE
    /\ repoUrl = ""
    /\ token = ""
    /\ repoToken = Undefined
    /\ registry = LiveRegistry
    /\ i = 0
    /\ version = Undefined
    /\ resolvedPackages = << >>
    /\ compatibilityMap = EmptyObject
    /\ result = << >>
    /\ inflight = {}
    /\ queries = << >>
    /\ declared = {}
    /\ executed = << >>
    /\ logged = {}
    /\ git = 0
    /\ tree = {}

Next ==
    \/ Start
    \/ GetGitHubToken
    \/ CreateGitRepo
    \/ NgNew
    \/ InstallDependenciesRule
    \/ VersionsReturn
    \/ ManifestReturn
    \/ Install
    \/ GitRule
    \/ GitCommand

Spec == Init /\ [][Next]_vars

---------------------------------------------------------------------------
(* The resolver called on its own, against a registry with fixed answers *)

\* a manifest with one string entry for zone.js
ZoneManifest(spec) ==
    [kind |-> "ok",
     peerDependencies |-> [n \in {"zone.js"} |-> [type |-> "string", value |-> spec]]]

\* a listing in which every version declares the given '@angular/core'
ListingDeclaring(spec) ==
    [kind |-> "ok",
     versions |-> [v \in VersionStrings |->
                     [dist |-> "tarball",
                      peerDependencies |-> [n \in {"@angular/core"} |-> spec]]]]

SampleListings == {[kind |-> "error"], ListingDeclaring("17.0.0")}

SampleManifests == {[kind |-> "error"], ZoneManifest("~0.11.0"), ZoneManifest("~0.14.0")}

\* registries in which every package answers with a sample listing and, for
\* every version, the same sample manifest
SampleRegistries ==
    [Packages -> {Pinned(l, [v \in ResolvableVersions |-> m]) :
                     l \in SampleListings, m \in SampleManifests}]

\* registries in which one package answers with any listing, and with different
\* manifests for "latest" and for a published version; the other packages fail
FocusRegistries ==
    {[p \in Packages |->
        IF p = f
        THEN Pinned(l, [v \in ResolvableVersions |->
                          IF v = "latest" THEN ZoneManifest("~0.11.0")
                          ELSE ZoneManifest("~0.14.0")])
        ELSE Pinned([kind |-> "error"], [v \in ResolvableVersions |-> [kind |-> "error"]])] :
     f \in Packages, l \in ListingResponses}

PinnedRegistries == SampleRegistries \cup FocusRegistries

\* a call of resolveDependencies, up to its first await
CallResolve ==
    /\ pc \in {"test", "resolved"}
    /\ Len(result) < MaxCalls
    /\ ResolveBegin
    /\ UNCHANGED << options, angularVersion, createRepo, repoUrl, token, repoToken,
                    registry, result, executed, logged, git, tree >>

InitResolver ==
    /\ pc = "test"
    /\ options = [angularVersion |-> Undefined]
    /\ angularVersion \in {"latest", "17.0.0"}
    /\ createRepo = FALSE
    /\ repoUrl = ""
    /\ token = ""
    /\ repoToken = Undefined
    /\ registry \in PinnedRegistries
    /\ i = 0
    /\ version = Undefined
    /\ resolvedPackages = << >>
    /\ compatibilityMap = EmptyObject
    /\ result = << >>
    /\ inflight = {}
    /\ queries = << >>
    /\ declared = {}
    /\ executed = << >>
    /\ logged = {}
    /\ git = 0
    /\ tree = {}

NextResolver ==
    \/ CallResolve
    \/ VersionsReturn
    \/ ManifestReturn

SpecResolver == InitResolver /\ [][NextResolver]_vars

---------------------------------------------------------------------------
(* Properties of the resolver against a registry with fixed answers *)

\* the 'name@version' specifier of package p
Specifier(p, v) == dependenciesToCheck[p].name \o "@" \o v

\* an entry of a listing declares exactly the given '@angular/core'
Declares(entry, angular) ==
    /\ "peerDependencies" \in DOMAIN entry
    /\ "@angular/core" \in DOMAIN entry.peerDependencies
    /\ entry.peerDependencies["@angular/core"] = angular

\* the published versions of package p that declare the target version
Qualifying(p) ==
    IF registry[p].pinned /\ registry[p].listing.kind = "ok"
    THEN {v \in DOMAIN registry[p].listing.versions :
             Declares(registry[p].listing.versions[v], angularVersion)}
    ELSE {}

\* s comes before t in the lexicographic order of code units
RECURSIVE UnitsBefore(_, _)
UnitsBefore(s, t) ==
    IF t = << >> THEN FALSE
    ELSE IF s = << >> THEN TRUE
    ELSE IF Head(s) # Head(t) THEN Head(s) < Head(t)
    ELSE UnitsBefore(Tail(s), Tail(t))

\* wherever the version resolved for package p shows in the state, it is v
ResolvedVersionIs(p, v) ==
    /\ (pc = "awaitManifest" /\ i = p) => version = v
    /\ Len(resolvedPackages) > p => resolvedPackages[p + 1] = Specifier(p, v)
    /\ \A k \in DOMAIN result :
         /\ Len(result[k].packages) > p
         /\ result[k].packages[p + 1] = Specifier(p, v)

\* C1: when some published version of a package declares an '@angular/core' peer
\* dependency equal to the target version, the version resolved for the package
\* is one of those versions, and the one that comes first in the order of code
\* units (not in semantic-version order).
InvC1 ==
    \A p \in Packages :
        (registry[p].pinned /\ Qualifying(p) # {}) =>
            \E v \in Qualifying(p) :
                /\ \A w \in Qualifying(p) \ {v} : UnitsBefore(CodeUnits(v), CodeUnits(w))
                /\ ResolvedVersionIs(p, v)

\* both "10.0.0" and "2.0.0" qualify and the result carries "10.0.0"
WitnessC1 ==
    /\ Len(result) >= 1
    /\ \E p \in Packages :
         /\ {"10.0.0", "2.0.0"} \subseteq Qualifying(p)
         /\ result[1].packages[p + 1] = Specifier(p, "10.0.0")

\* C2: a package whose listing has no version declaring the target version (no
\* versions, no peerDependencies, another spec, or no listing) resolves to "latest".
InvC2 ==
    \A p \in Packages :
        (registry[p].pinned /\ Qualifying(p) = {}) => ResolvedVersionIs(p, "latest")

\* a listing with versions, none of them qualifying, resolved to "latest"
WitnessC2 ==
    /\ Len(result) >= 1
    /\ \E p \in Packages :
         /\ registry[p].listing.kind = "ok"
         /\ DOMAIN registry[p].listing.versions # {}
         /\ Qualifying(p) = {}
         /\ result[1].packages[p + 1] = Specifier(p, "latest")

\* C3: a failing fetch never rejects resolveDependencies nor stops it: a package
\* whose listing fetch fails resolves to "latest", while the loop runs the query
\* of its current package is in flight (its answer, of any kind, resumes the
\* loop), and every result has a specifier for each of the five packages.
InvC3 ==
    /\ pc # "rejected"
    /\ pc = "awaitVersions" => (i \in Packages /\ VersionsQuery(i) \in inflight)
    /\ pc = "awaitManifest" => (i \in Packages /\ ManifestQuery(i, version) \in inflight)
    /\ \A p \in Packages :
         (registry[p].pinned /\ registry[p].listing.kind = "error")
             => ResolvedVersionIs(p, "latest")
    /\ \A k \in DOMAIN result :
         /\ Len(result[k].packages) = Len(dependenciesToCheck) + 1
         /\ \A p \in Packages :
              \E v \in ResolvableVersions : result[k].packages[p + 1] = Specifier(p, v)

\* the listing and the manifest of the second package fail, a later package
\* resolves to a published version
WitnessC3 ==
    /\ Len(result) >= 1
    /\ registry[2].listing.kind = "error"
    /\ registry[2].manifest["latest"].kind = "error"
    /\ result[1].packages[3] = Specifier(2, "latest")
    /\ result[1].packages[4] = Specifier(3, "10.0.0")

\* C6: every call of resolveDependencies with the same target version against
\* the same registry answers returns the same packages and the same
\* forceInstall, and each call starts from fresh locals.
InvC6 ==
    /\ \A j, k \in DOMAIN result : result[j] = result[k]
    /\ (pc = "awaitVersions" /\ i = 1) =>
          /\ Len(resolvedPackages) = 1
          /\ DOMAIN compatibilityMap = {}

\* two calls returned, with a conflict and a published version resolved
WitnessC6 ==
    /\ Len(result) = 2
    /\ result[2].forceInstall
    /\ result[2].packages[2] = Specifier(1, "10.0.0")

---------------------------------------------------------------------------
(* Properties of the run of the schematic *)

\* the names some peer dependencies fetched in this call declare with two or
\* more distinct version-spec strings
Conflicting == {n \in DepNames : Cardinality({d \in declared : d[1] = n}) >= 2}

\* C4: when resolveDependencies returns, forceInstall is true exactly when some
\* peer-dependency name was declared with two or more distinct version-spec
\* strings by the peer dependencies fetched; equal specs from several packages
\* and values that are no strings make no conflict.
InvC4 ==
    pc = "resolved" => (result[Len(result)].forceInstall <=> Conflicting # {})

\* zone.js was declared with both specs and forceInstall is true
WitnessC4 ==
    /\ pc = "resolved"
    /\ {<< "zone.js", "~0.11.0" >>, << "zone.js", "~0.14.0" >>} \subseteq declared
    /\ result[Len(result)].forceInstall

\* C5: the packages returned are the generator package pinned to the target
\* version, for which the registry is never queried, followed by one
\* 'name@version' per auxiliary package in the order of the request list.
InvC5 ==
    /\ \A k \in DOMAIN result :
         /\ Len(result[k].packages) = 1 + Len(dependenciesToCheck)
         /\ result[k].packages[1] = "@schematics/angular@" \o angularVersion
         /\ \A p \in Packages :
              \E v \in ResolvableVersions : result[k].packages[p + 1] = Specifier(p, v)
    /\ \A k \in DOMAIN queries :
         \E p \in Packages : queries[k].package = dependenciesToCheck[p].name

\* a result for target 17.0.0 whose last package resolved to a published version
WitnessC5 ==
    /\ pc = "resolved"
    /\ result[1].packages[1] = "@schematics/angular@17.0.0"
    /\ result[1].packages[6] = "keycloak-angular@2.0.0"

\* the command line of the install step for a result of the resolver
InstallLine(r) ==
    "npm install " \o join(r.packages, " ")
        \o (IF r.forceInstall THEN " --legacy-peer-deps" ELSE "")

GitLines == {gitCommands(repoUrl, token)[k] : k \in DOMAIN gitCommands(repoUrl, token)}

\* C7: the install command is 'npm install', the specifiers of the result in
\* order, and '--legacy-peer-deps' exactly when forceInstall is true; it is the
\* second command of the run and the only install, and it runs when all queries
\* of the resolver have been answered.
InvC7 ==
    /\ Len(executed) >= 2 =>
          /\ Len(result) = 1
          /\ executed[2].line = InstallLine(result[1])
          /\ inflight = {}
          /\ Len(queries) = 2 * Len(dependenciesToCheck)
    /\ pc \in {"gitRule", "git", "done"} => Len(executed) >= 2
    /\ \A k \in DOMAIN executed :
          /\ k = 1 => executed[k].line = "npx " \o join(ngNewArgs(angularVersion), " ")
          /\ k >= 3 => executed[k].line \in GitLines

\* the install ran with the flag after a conflict was found
WitnessC7 ==
    /\ Len(executed) >= 2
    /\ result[1].forceInstall
    /\ executed[2].exit = 0

InvC9 ==
    /\ Cardinality(inflight) <= 1
    /\ inflight # {} => inflight = {queries[Len(queries)]}
    /\ Len(queries) <= 2 * Len(dependenciesToCheck)
    /\ Len(result) >= 1 => (inflight = {} /\ Len(queries) = 2 * Len(dependenciesToCheck))
    /\ \A k \in DOMAIN queries :
         LET p == (k + 1) \div 2
         IN  IF k % 2 = 1
             THEN queries[k] = [endpoint |-> "versions", package |-> dependenciesToCheck[p].name]
             ELSE /\ queries[k].endpoint = "manifest"
                  /\ queries[k].package = dependenciesToCheck[p].name
                  /\ ResolvedVersionIs(p, queries[k].version)

\* the manifest of a published version is in flight for the third package
WitnessC9 ==
    /\ pc = "awaitManifest"
    /\ i = 3
    /\ inflight = {[endpoint |-> "manifest", package |-> "primeflex", version |-> "2.0.0"]}
    /\ Len(queries) = 6

\* C10: the Tree the schematic was given, empty, has no files at any point of
\* the run: no rule of the chain creates, changes or deletes a file of it.
InvC10 == tree = {}

\* the run completed with default options, after all seven Git commands
WitnessC10 ==
    /\ pc = "done"
    /\ options.angularVersion = Undefined
    /\ git = Len(gitCommands(repoUrl, token))
    /\ tree = {}

\* C11: the steps of a run come in the order repository creation (when asked
\* for), 'ng new', resolution, 'npm install', Git setup: nothing is run or
\* queried before the repository step is over; the resolver starts only after
\* 'ng new' exited with 0, and when it fails nothing else runs; the install runs
\* after the resolver returned; Git setup runs only after the install exited
\* with 0 and only with a non-empty repository URL; the run is aborted by a
\* failed command only, never by a failed repository creation.
InvC11 ==
    /\ pc \in {"start", "getToken", "createRepo"} =>
          (executed = << >> /\ queries = << >> /\ repoUrl = "")
    /\ queries # << >> => (Len(executed) >= 1 /\ executed[1].exit = 0)
    /\ Len(executed) >= 1 =>
          executed[1].line = "npx " \o join(ngNewArgs(angularVersion), " ")
    /\ (Len(executed) >= 1 /\ executed[1].exit # 0) =>
          (Len(executed) = 1 /\ queries = << >> /\ result = << >> /\ pc = "aborted")
    /\ Len(executed) >= 2 =>
          /\ Len(result) = 1
          /\ executed[2].line = "npm " \o join(installArgs(result[1].packages,
                                                            result[1].forceInstall), " ")
    /\ Len(executed) >= 3 =>
          /\ executed[2].exit = 0
          /\ repoUrl # ""
          /\ \A k \in 3..Len(executed) :
               executed[k].line = gitCommands(repoUrl, token)[k - 2]
    /\ pc \in {"git", "done"} => (Len(executed) >= 2 /\ executed[2].exit = 0)
    /\ (pc = "done" /\ repoUrl = "") => Len(executed) = 2
    /\ pc = "git" => repoUrl # ""
    /\ pc = "aborted" => (executed # << >> /\ executed[Len(executed)].exit # 0)
    /\ "repoError" \in logged => repoUrl = ""

\* the creation of the repository failed, and the generator and the install ran
\* to the end of the run
WitnessC11 ==
    /\ "repoError" \in logged
    /\ pc = "done"
    /\ Len(executed) = 2
    /\ executed[2].exit = 0

\* C12: whenever Git setup runs, the token handed to setupGitRepository is the
\* token getGitHubToken returned and createGitRepo used, it is not empty, and the
\* URL configured as 'origin' embeds it.
TokenReachesOrigin ==
    (pc = "git" \/ git > 0) =>
        /\ token = repoToken
        /\ token # ""
        /\ Len(executed) >= 6 =>
              executed[6].line =
                  "git remote add origin https://" \o repoToken \o "@" \o CloneUrlRest

====
